---------------------------- MODULE Spec2Model ----------------------------
(***************************************************************************)
(* Gauge<T, Fields...> and GaugeCell<T> of                                 *)
(* tensorstore/internal/metrics/gauge.h, with one int-valued field.        *)
(*                                                                         *)
(* int64_t is modelled IntBits wide (two's complement, wrapping in the     *)
(* atomic fetch_add).  double is modelled as fixed point in units of one   *)
(* half: the integer h stands for the double h/2, so 7 is 3.5 and 2 is     *)
(* 1.0; all modelled doubles add without rounding.                         *)
(*                                                                         *)
(* The field-keyed store (AbstractMetric: GetCell, CollectCells) and       *)
(* StrCat are not part of the sources at hand; they are modelled from the  *)
(* specification's section 6.                                              *)
(*                                                                         *)
(* The functions of tensorstore/util/division.h, of which the sources at   *)
(* hand hold only the test, are modelled on mathematical integers as C++   *)
(* truncating division with the sign adjustment the test's values need.    *)
(***************************************************************************)
EXTENDS Integers, Sequences, FiniteSets, TLC

\* ---------------------------------------------------------------- bounds
NumThreads == 2
MaxCalls == 2
MaxFree == 3
MaxSeq == 3
IntBits == 4
MaxFails == 2
MaxNum == 10
MaxDen == 7

Threads == 1 .. NumThreads
\* The label tuples callers use: one int-valued field.
Labels == {-1, 10}

\* ------------------------------------------------------------ value types
RECURSIVE Pow2(_)
Pow2(n) == IF n = 0 THEN 1 ELSE 2 * Pow2(n - 1)

IntMin == -Pow2(IntBits - 1)
IntMax == Pow2(IntBits - 1) - 1
IntRange == IntMin .. IntMax

\* Two's complement wrap-around of std::atomic<int64_t>::fetch_add.
Wrap(x) == ((x - IntMin) % Pow2(IntBits)) + IntMin

Kinds == {"int64", "double"}

\* int -> double conversion (exact for the modelled range).
ToDouble(n) == 2 * n

\* double -> int64_t implicit conversion: truncation toward zero.
ToInt64(h) == IF h >= 0 THEN h \div 2 ELSE -((-h) \div 2)

\* The literal 1 of Increment / Decrement as a value_type.
One(k) == IF k = "int64" THEN 1 ELSE ToDouble(1)

\* tensorstore::StrCat(item) of an int field: its decimal rendering.
Digit(d) == CASE d = 0 -> "0" [] d = 1 -> "1" [] d = 2 -> "2" [] d = 3 -> "3"
              [] d = 4 -> "4" [] d = 5 -> "5" [] d = 6 -> "6" [] d = 7 -> "7"
              [] d = 8 -> "8" [] d = 9 -> "9"

RECURSIVE Decimal(_)
Decimal(n) == IF n < 10 THEN Digit(n) ELSE Decimal(n \div 10) \o Digit(n % 10)

StrCat(n) == IF n < 0 THEN "-" \o Decimal(-n) ELSE Decimal(n)


\* ---------------------------------------------------------------- division
\* a / b and a % b of C++ on integers: the quotient truncated toward zero
\* and the remainder that goes with it.
Abs(a) == IF a < 0 THEN -a ELSE a
TruncDiv(a, b) ==
    IF (a < 0) = (b < 0) THEN Abs(a) \div Abs(b) ELSE -(Abs(a) \div Abs(b))
TruncRem(a, b) == a - TruncDiv(a, b) * b

\* (mutant) the quotient is left as the division truncated it.
FloorOfRatioTruncates(a, b) == TruncDiv(a, b)

\* tensorstore::FloorOfRatio: the truncated quotient, one less when the
\* division is inexact and the operands differ in sign.
FloorOfRatio(a, b) ==
    IF TruncRem(a, b) # 0 /\ (a < 0) # (b < 0)
    THEN TruncDiv(a, b) - 1 ELSE TruncDiv(a, b)

\* tensorstore::CeilOfRatio: the truncated quotient, one more when the
\* division is inexact and the operands agree in sign.
CeilOfRatio(a, b) ==
    IF TruncRem(a, b) # 0 /\ (a < 0) = (b < 0)
    THEN TruncDiv(a, b) + 1 ELSE TruncDiv(a, b)

\* (mutant) the remainder is left as % gave it.
NonnegativeModRem(a, b) == TruncRem(a, b)

\* tensorstore::NonnegativeMod: a % b, moved up by b when negative.
NonnegativeMod(a, b) ==
    IF TruncRem(a, b) < 0 THEN TruncRem(a, b) + b ELSE TruncRem(a, b)

\* (mutant) always the next multiple, also from a multiple.
RoundUpToNext(x, m) == (TruncDiv(x, m) + 1) * m

\* tensorstore::RoundUpTo: x raised to a multiple of m.
RoundUpTo(x, m) == TruncDiv(x + m - 1, m) * m

DivisionFns == {"FloorOfRatio", "CeilOfRatio", "NonnegativeMod", "RoundUpTo"}

\* --------------------------------------------------------------- GaugeCell
\* (mutant) value_ is left with a stale value.
NewCellStale == IntMax

\* std::atomic<T> value_{0}: a freshly constructed Cell.
NewCell == 0

\* -value on an int64_t: signed overflow for INT64_MIN is undefined, so any
\* int64_t may come out; every other value negates exactly.
Negate(n) == IF n = IntMin THEN IntRange ELSE {-n}

\* (mutant) the amount is stored, not added.
CellFetchAddStores(cur, value) == value

\* GaugeCell<int64_t>::IncrementBy: value_.fetch_add(value).
CellFetchAdd(cur, value) == Wrap(cur + value)

\* (mutant) Set adds to the value instead of replacing it.
CellStoreAdds(cur, value) == cur + value

\* GaugeCell<T>::Set: value_ = value.
CellStore(cur, value) == value

\* GaugeCell<T>::Get: return value_.
CellLoad(cur) == cur

\* (mutant) a failed attempt leaves the expected v as it was.
CompareExchangeKeepsExpected(cur, expected, desired) ==
    IF cur = expected
    THEN {[ok |-> TRUE, val |-> desired, exp |-> expected]}
    ELSE {[ok |-> FALSE, val |-> cur, exp |-> expected]}

\* (mutant) a plain store of v + value, whatever value_ holds by now.
CompareExchangeBlind(cur, expected, desired) ==
    {[ok |-> TRUE, val |-> desired, exp |-> expected]}

\* value_.compare_exchange_weak(v, v + value): the outcomes of one attempt.
\* It succeeds only if value_ still equals the expected v; it may fail
\* spuriously; on failure the expected v is replaced by the value read.
CompareExchangeWeak(cur, expected, desired) ==
    {[ok |-> TRUE, val |-> desired, exp |-> expected] : x \in {cur} \cap {expected}}
        \cup {[ok |-> FALSE, val |-> cur, exp |-> cur]}

\* GaugeCell<T>::DecrementBy(int64_t value) { IncrementBy(-value); }: the
\* amounts IncrementBy may receive, as a value_type.
CellDecrementBy(k, value) ==
    {IF k = "int64" THEN m ELSE ToDouble(m) : m \in Negate(value)}

\* The amounts added to the Cell by each Gauge operation, after the
\* conversions of its argument to the Cell method's parameter type.
GaugeIncrement(k) == {One(k)}
GaugeIncrementBy(k, value) == {value}
\* (mutant) Decrement forwards to the Cell's IncrementBy(1).
GaugeDecrementAdds(k) == {One(k)}
GaugeDecrement(k) == CellDecrementBy(k, 1)
GaugeDecrementBy(k, value) ==
    CellDecrementBy(k, IF k = "int64" THEN value ELSE ToInt64(value))

Adders == {"Increment", "IncrementBy", "Decrement", "DecrementBy"}
CellOps == Adders \cup {"Set", "Get"}
HasValue == {"IncrementBy", "DecrementBy", "Set"}

Deltas(k, o, value) ==
    CASE o = "Increment" -> GaugeIncrement(k)
      [] o = "IncrementBy" -> GaugeIncrementBy(k, value)
      [] o = "Decrement" -> GaugeDecrement(k)
      [] o = "DecrementBy" -> GaugeDecrementBy(k, value)
      [] OTHER -> {0}

\* ------------------------------------------------------------------ state
VARIABLES
    made,   \* how the Gauge was constructed ("none": not yet)
    added,  \* the calls of GetMetricRegistry().Add made with this Gauge
    kind,   \* the Gauge's value type T
    scen,   \* the workload the callers run
    cells,  \* the Cells constructed so far: cells[c] is Cell c's value_
    index,  \* the field-keyed store: label -> Cell (0: no Cell yet)
    pc, op, lbl, arg,   \* per thread: position, operation, label, value
    dlt,    \* per thread: value of GaugeCell<double>::IncrementBy(value)
    cell,   \* per thread: the Cell GetCell returned
    v,      \* per thread: the local v of GaugeCell<double>::IncrementBy
    ret,    \* per thread: the value Get returned
    todo,   \* per thread: labels CollectCells has yet to visit
    out,    \* per thread: result.gauges of Collect
    calls,  \* per thread: calls made
    lin,    \* history: the value of each label in the order of effects
    linret, \* history: what Get returns in that order
    last,   \* history (seq): per label, the last write that took effect
    lazy,   \* history (seq): labels first accessed by a Get
    seen,   \* history: the labels any call was made with
    held,   \* history (coll): per label, the values its Cell has held
            \* since the Collect in progress started
    fails,  \* history (cas): per thread, the failed attempts of its
            \* compare_exchange_weak loop so far
    since,  \* history (cas): per thread, whether another thread wrote the
            \* Cell since this thread last read it
    num, den,   \* division: the operands a caller passes
    quo     \* division: per function, the value it returned (none yet: {})

vars == <<made, added, kind, scen, cells, index, pc, op, lbl, arg, dlt, cell, v, ret,
          todo, out, calls, lin, linret, last, lazy, seen, held,
          fails, since, num, den, quo>>

hist == <<last, lazy, seen, held, fails, since>>

\* The operands and results of the division functions.
division == <<num, den, quo>>

\* What no operation on a constructed Gauge changes.
gauge == <<made, added, kind, scen>>

\* (mutant) a Cell is constructed on every lookup.
LookupAlwaysCreates(ix, cs, l) ==
    [index |-> [ix EXCEPT ![l] = Len(cs) + 1], cells |-> Append(cs, NewCell)]

\* (mutant) a Cell whose value is back at 0 is dropped and made anew.
LookupOrReplace(ix, cs, l) ==
    IF ix[l] = 0 \/ cs[ix[l]] = 0
    THEN [index |-> [ix EXCEPT ![l] = Len(cs) + 1],
          cells |-> Append(cs, NewCell)]
    ELSE [index |-> ix, cells |-> cs]

\* The field-keyed store's GetCell on label l: the Cell bound to l, which
\* is constructed and bound first if l has none.
LookupOrCreate(ix, cs, l) ==
    IF ix[l] = 0
    THEN [index |-> [ix EXCEPT ![l] = Len(cs) + 1],
          cells |-> Append(cs, NewCell)]
    ELSE [index |-> ix, cells |-> cs]

\* (mutant) the entry's value passes through an int64_t.
EntryTruncated(l, cur) ==
    <<StrCat(l), IF kind = "int64" THEN cur ELSE ToDouble(ToInt64(cur))>>

\* (mutant) the entry carries a default value, not cell.Get().
EntryDefault(l, cur) == <<StrCat(l), 0>>

\* One entry of result.gauges: the label tuple's display strings and
\* cell.Get().
Entry(l, cur) == <<StrCat(l), CellLoad(cur)>>

local == <<op, lbl, arg, dlt, cell, v, ret, todo, out>>

\* (mutant) value_ is shared by all Cells (a static member).
PutShared(c, x) == [i \in DOMAIN cells |-> x]

\* Cell c's value_ replaced by x: value_ is a member of each Cell.
Put(c, x) == [cells EXCEPT ![c] = x]

\* What Get(l) would return now.
ValueOf(l) == IF index[l] = 0 THEN NewCell ELSE cells[index[l]]

\* Sequential meaning of adding d to a value of type k.
SeqAdd(k, a, d) == IF k = "int64" THEN Wrap(a + d) ELSE a + d

\* The calls made so far, over all threads.
RECURSIVE SumTo(_, _)
SumTo(f, n) == IF n = 0 THEN 0 ELSE f[n] + SumTo(f, n - 1)
TotalCalls == SumTo(calls, NumThreads)

\* The workloads callers run.
\*   free: two threads, any operation on a Cell, MaxFree calls in all.
\*   inc:  int64 gauge; every thread calls IncrementBy(1, L0) MaxCalls
\*         times; when all have returned, a thread may call Get(L0).
\*   dinc: double gauge; thread t calls IncrementBy(DeltaOf(t), L0)
\*         MaxCalls times.
\*   seq:  one thread, any operation, MaxSeq calls besides Collect.
\*   ctor: the Gauge is constructed first; then one thread, MaxSeq calls.
\*   fair: two threads call IncrementBy, Set and Get on L0, MaxFree calls
\*         in all.
\*   cas:  double gauge; two threads call IncrementBy and Set on L0,
\*         MaxFree calls in all; failed attempts are counted, at most
\*         MaxFails spurious ones a call.
\*   div:  no call on the Gauge; the division functions are applied.
\*   coll: thread 1 calls Collect again and again while thread 2 writes
\*         and reads, MaxFree calls in all.
L0 == CHOOSE l \in Labels : \A m \in Labels : l <= m
FreeThreads == {1, 2}
FreeArgs(k) == IF k = "int64" THEN {1, IntMax} ELSE {-3, 7}
SeqArgs(k) == IF k = "int64" THEN {IntMin, 2} ELSE {-3, 7}
SetArgs(k) == IF k = "int64" THEN {IntMin, 0, IntMax} ELSE {-3, 0, 7}
DeltaOf(t) == IF t % 2 = 1 THEN 2 * t - 1 ELSE 1 - 2 * t

AllDone == \A u \in Threads : pc[u] = "idle" /\ calls[u] >= MaxCalls

Allowed(t, o, l) ==
    CASE scen = "free" -> t \in FreeThreads /\ TotalCalls < MaxFree
      [] scen = "seq" -> t = 1 /\ calls[t] < MaxSeq
      [] scen = "ctor" -> t = 1 /\ calls[t] < MaxSeq
      [] scen = "fair" -> /\ t \in FreeThreads
                          /\ l = L0
                          /\ o \in {"IncrementBy", "Set", "Get"}
                          /\ TotalCalls < MaxFree
      [] scen = "cas" -> /\ t \in FreeThreads
                         /\ l = L0
                         /\ o \in {"IncrementBy", "Set"}
                         /\ TotalCalls < MaxFree
      [] scen = "coll" -> /\ t = 2
                          /\ o \in {"Set", "IncrementBy", "Get"}
                          /\ TotalCalls < MaxFree
      [] scen = "inc" -> /\ l = L0
                         /\ \/ o = "IncrementBy" /\ calls[t] < MaxCalls
                            \/ o = "Get" /\ AllDone /\ TotalCalls = NumThreads * MaxCalls
      [] scen = "dinc" -> l = L0 /\ o = "IncrementBy" /\ calls[t] < MaxCalls

\* The values a caller passes to operation o.
ArgChoices(t, o) ==
    CASE o \notin HasValue -> {0}
      [] scen = "free" -> FreeArgs(kind)
      [] scen = "seq" -> IF o = "Set" THEN SetArgs(kind) ELSE SeqArgs(kind)
      [] scen = "ctor" -> {One(kind)}
      [] scen \in {"fair", "cas"} -> {DeltaOf(t)}
      [] scen = "coll" -> IF o = "Set" THEN {-3} ELSE {One(kind)}
      [] scen = "inc" -> {1}
      [] scen = "dinc" -> {DeltaOf(t)}

KindsOf(s) ==
    CASE s = "inc" -> {"int64"}
      [] s \in {"dinc", "cas"} -> {"double"}
      [] OTHER -> Kinds

\* Collect takes no label; under seq it may follow any call.
AllowedCollect(t) ==
    CASE scen \in {"seq", "ctor", "coll"} -> t = 1
      [] OTHER -> FALSE

\* The write of thread t takes effect on its label: what the history keeps.
NoWrite == [op |-> "none", arg |-> 0, pre |-> 0]
Wrote(t) ==
    IF scen = "seq"
    THEN [last EXCEPT ![lbl[t]] =
            CASE op[t] = "Set" -> [op |-> "Set", arg |-> arg[t], pre |-> 0]
              [] op[t] = "IncrementBy" ->
                    [op |-> "IncrementBy", arg |-> arg[t],
                     pre |-> cells[cell[t]]]
              [] OTHER -> [op |-> "other", arg |-> 0, pre |-> 0]]
    ELSE last

\* The values each Cell has held since a Collect started: none when none
\* is in progress; the Cell's value at the start; and each value a step
\* taken during the Collect leaves in it.
NoHeld == [l \in Labels |-> {}]
HeldAtBegin ==
    IF scen = "coll"
    THEN [l \in Labels |-> IF index[l] = 0 THEN {} ELSE {cells[index[l]]}]
    ELSE held
HeldNext ==
    IF scen = "coll" /\ \E u \in Threads : pc[u] = "visit"
    THEN [l \in Labels |->
            IF index'[l] = 0 THEN held[l]
            ELSE held[l] \cup {cells'[index'[l]]}]
    ELSE held

\* The attempts of thread t's compare_exchange_weak loop that failed, after
\* one more attempt.
FailsNext(t, ok) ==
    IF scen = "cas"
    THEN [fails EXCEPT ![t] = IF ok THEN 0 ELSE @ + 1]
    ELSE fails

\* Thread t has read its Cell, and written it if wrote: every other thread
\* that waits to compare-and-swap the same Cell has now been overtaken.
SinceNext(t, wrote) ==
    IF scen = "cas"
    THEN [u \in Threads |->
            IF u = t THEN FALSE
            ELSE IF wrote /\ pc[u] = "cas" /\ cell[u] = cell[t] THEN TRUE
            ELSE since[u]]
    ELSE since

\* The thread's locals once its call has returned.
Returned(t) ==
    /\ pc' = [pc EXCEPT ![t] = "idle"]
    /\ op' = [op EXCEPT ![t] = "none"]
    /\ lbl' = [lbl EXCEPT ![t] = 0]
    /\ arg' = [arg EXCEPT ![t] = 0]
    /\ dlt' = [dlt EXCEPT ![t] = 0]
    /\ cell' = [cell EXCEPT ![t] = 0]
    /\ v' = [v EXCEPT ![t] = 0]
    /\ ret' = [ret EXCEPT ![t] = 0]
    /\ linret' = [linret EXCEPT ![t] = 0]
    /\ todo' = [todo EXCEPT ![t] = {}]
    /\ out' = [out EXCEPT ![t] = <<>>]

\* Gauge::Allocate: new Gauge(...), handed to the caller; no call of
\* GetMetricRegistry().Add.
AllocateAdds(n) == n

\* (mutant) the Gauge is added by Allocate and again by New.
NewAddsTwice(n) == AllocateAdds(n) + 2

\* Gauge::New: Allocate, then GetMetricRegistry().Add(gauge.get()).
NewAdds(n) == AllocateAdds(n) + 1

\* The state after construction of the Gauge, under workload s; under ctor
\* the state before it. The other workloads use a Gauge made by New.
InitOf(s) ==
    /\ made = IF s = "ctor" THEN "none" ELSE "New"
    /\ added = IF s = "ctor" THEN 0 ELSE NewAdds(0)
    /\ kind \in KindsOf(s)
    /\ scen = s
    /\ cells = <<>>
    /\ index = [l \in Labels |-> 0]
    /\ pc = [t \in Threads |-> "idle"]
    /\ op = [t \in Threads |-> "none"]
    /\ lbl = [t \in Threads |-> 0]
    /\ arg = [t \in Threads |-> 0]
    /\ dlt = [t \in Threads |-> 0]
    /\ cell = [t \in Threads |-> 0]
    /\ v = [t \in Threads |-> 0]
    /\ ret = [t \in Threads |-> 0]
    /\ todo = [t \in Threads |-> {}]
    /\ out = [t \in Threads |-> <<>>]
    /\ calls = [t \in Threads |-> 0]
    /\ lin = [l \in Labels |-> 0]
    /\ linret = [t \in Threads |-> 0]
    /\ last = [l \in Labels |-> NoWrite]
    /\ lazy = {}
    /\ seen = {}
    /\ held = NoHeld
    /\ fails = [t \in Threads |-> 0]
    /\ since = [t \in Threads |-> FALSE]
    /\ num \in IF s = "div" THEN -MaxNum .. MaxNum ELSE {0}
    /\ den \in IF s = "div" THEN 1 .. MaxDen ELSE {1}
    /\ quo = [f \in DivisionFns |-> {}]

\* ---------------------------------------------------------------- actions
\* A thread calls a Gauge operation o(x, l): impl_.GetCell(labels...) yields
\* the Cell bound to the label tuple, constructed on first use; then the Cell
\* method is entered with its converted argument.
GetCell(t) ==
    /\ pc[t] = "idle"
    /\ made # "none"
    /\ \E o \in CellOps, l \in Labels :
       \E x \in ArgChoices(t, o) :
          /\ Allowed(t, o, l)
          /\ op' = [op EXCEPT ![t] = o]
          /\ lbl' = [lbl EXCEPT ![t] = l]
          /\ arg' = [arg EXCEPT ![t] = x]
          /\ index' = LookupOrCreate(index, cells, l).index
          /\ cells' = LookupOrCreate(index, cells, l).cells
          /\ cell' = [cell EXCEPT ![t] = index'[l]]
          /\ seen' = seen \cup {l}
          /\ pc' = [pc EXCEPT ![t] =
                      CASE o = "Set" -> "store"
                        [] o = "Get" -> "get"
                        [] kind = "int64" -> "fetch_add"
                        [] OTHER -> "load"]
          /\ lazy' = IF scen = "seq" /\ o = "Get" /\ l \notin seen
                      THEN lazy \cup {l} ELSE lazy
    /\ calls' = [calls EXCEPT ![t] = @ + 1]
    /\ UNCHANGED <<division, gauge, dlt, v, ret, todo, out, lin, linret, last,
                   fails, since>>
    /\ held' = HeldNext

\* GaugeCell<int64_t>::IncrementBy, entered with one of the amounts the
\* operation's argument converts to: value_.fetch_add(value).
FetchAdd(t) ==
    /\ pc[t] = "fetch_add"
    /\ \E d \in Deltas(kind, op[t], arg[t]) :
          /\ cells' = Put(cell[t], CellFetchAdd(cells[cell[t]], d))
          /\ lin' = [lin EXCEPT ![lbl[t]] = SeqAdd(kind, @, d)]
    /\ last' = Wrote(t)
    /\ Returned(t)
    /\ UNCHANGED <<division, gauge, index, calls, lazy, seen, fails>>
    /\ since' = SinceNext(t, TRUE)
    /\ held' = HeldNext

\* GaugeCell<double>::IncrementBy, entered with one of the amounts the
\* operation's argument converts to: double v = value_.load().
Load(t) ==
    /\ pc[t] = "load"
    /\ \E d \in Deltas(kind, op[t], arg[t]) : dlt' = [dlt EXCEPT ![t] = d]
    /\ v' = [v EXCEPT ![t] = CellLoad(cells[cell[t]])]
    /\ pc' = [pc EXCEPT ![t] = "cas"]
    /\ UNCHANGED <<division, gauge, cells, index, op, lbl, arg, cell, ret,
                   todo, out, calls, lin, linret, hist>>

\* GaugeCell<double>::IncrementBy: one turn of
\* while (!value_.compare_exchange_weak(v, v + value)) {}.
CompareExchange(t) ==
    /\ pc[t] = "cas"
    /\ \E r \in CompareExchangeWeak(cells[cell[t]], v[t], v[t] + dlt[t]) :
          /\ cells' = Put(cell[t], r.val)
          /\ fails' = FailsNext(t, r.ok)
          /\ since' = SinceNext(t, r.ok)
          /\ IF r.ok
               THEN /\ lin' = [lin EXCEPT ![lbl[t]] = SeqAdd(kind, @, dlt[t])]
                    /\ last' = Wrote(t)
                    /\ Returned(t)
               ELSE /\ (scen = "cas" /\ v[t] = cells[cell[t]])
                          => fails[t] < MaxFails
                    /\ v' = [v EXCEPT ![t] = r.exp]
                    /\ UNCHANGED <<pc, op, lbl, arg, dlt, cell, ret, todo,
                                   out, lin, linret, last>>
    /\ UNCHANGED <<division, gauge, index, calls, lazy, seen>>
    /\ held' = HeldNext

\* GaugeCell<T>::Set: value_ = value.
Store(t) ==
    /\ pc[t] = "store"
    /\ cells' = Put(cell[t], CellStore(cells[cell[t]], arg[t]))
    /\ lin' = [lin EXCEPT ![lbl[t]] = arg[t]]
    /\ last' = Wrote(t)
    /\ Returned(t)
    /\ UNCHANGED <<division, gauge, index, calls, lazy, seen, fails>>
    /\ since' = SinceNext(t, TRUE)
    /\ held' = HeldNext

\* GaugeCell<T>::Get: return value_.
Get(t) ==
    /\ pc[t] = "get"
    /\ ret' = [ret EXCEPT ![t] = CellLoad(cells[cell[t]])]
    /\ linret' = [linret EXCEPT ![t] = lin[lbl[t]]]
    /\ pc' = [pc EXCEPT ![t] = "done"]
    /\ UNCHANGED <<division, gauge, cells, index, op, lbl, arg, dlt, cell, v,
                   todo, out, calls, lin, hist>>

\* Gauge::Collect: impl_.CollectCells starts to enumerate the existing
\* (Cell, label tuple) pairs.
CollectBegin(t) ==
    /\ pc[t] = "idle"
    /\ made # "none"
    /\ AllowedCollect(t)
    /\ op' = [op EXCEPT ![t] = "Collect"]
    /\ todo' = [todo EXCEPT ![t] = {l \in Labels : index[l] # 0}]
    /\ pc' = [pc EXCEPT ![t] = "visit"]
    /\ held' = HeldAtBegin
    /\ UNCHANGED <<division, gauge, cells, index, lbl, arg, dlt, cell, v, ret,
                   out, calls, lin, linret, last, lazy, seen, fails, since>>

\* (mutant) the visitor reads the Cell and resets it.
CollectVisitResets(t) ==
    /\ pc[t] = "visit"
    /\ \E l \in todo[t] :
          /\ out' = [out EXCEPT ![t] = Append(@, Entry(l, cells[index[l]]))]
          /\ todo' = [todo EXCEPT ![t] = @ \ {l}]
          /\ cells' = Put(index[l], NewCell)
    /\ UNCHANGED <<division, gauge, index, pc, op, lbl, arg, dlt, cell, v,
                   ret, calls, lin, linret, hist>>

\* The visitor of Collect on one pair: result.gauges.emplace_back of the
\* fields' display strings and cell.Get().
CollectVisit(t) ==
    /\ pc[t] = "visit"
    /\ \E l \in todo[t] :
          /\ out' = [out EXCEPT ![t] = Append(@, Entry(l, cells[index[l]]))]
          /\ todo' = [todo EXCEPT ![t] = @ \ {l}]
    /\ UNCHANGED <<division, gauge, cells, index, pc, op, lbl, arg, dlt, cell, v,
                   ret, calls, lin, linret, hist>>

\* Every pair was visited: Collect returns result.
CollectEnd(t) ==
    /\ pc[t] = "visit"
    /\ todo[t] = {}
    /\ pc' = [pc EXCEPT ![t] = "done"]
    /\ UNCHANGED <<division, gauge, cells, index, local, calls, lin, linret, hist>>

\* Get or Collect has handed its result to the caller.
Return(t) ==
    /\ pc[t] = "done"
    /\ Returned(t)
    /\ held' = IF op[t] = "Collect" THEN NoHeld ELSE held
    /\ UNCHANGED <<division, gauge, cells, index, calls, lin, last, lazy, seen,
                   fails, since>>

\* Gauge::Allocate constructs the Gauge.
Allocate ==
    /\ made = "none"
    /\ made' = "Allocate"
    /\ added' = AllocateAdds(added)
    /\ UNCHANGED <<division, kind, scen, cells, index, pc, local, calls, lin,
                   linret, hist>>

\* Gauge::New constructs the Gauge and registers it.
New ==
    /\ made = "none"
    /\ made' = "New"
    /\ added' = NewAdds(added)
    /\ UNCHANGED <<division, kind, scen, cells, index, pc, local, calls, lin,
                   linret, hist>>

\* The operations on Cells, step by step.
CellStep(t) ==
    \/ GetCell(t)
    \/ FetchAdd(t)
    \/ Load(t)
    \/ CompareExchange(t)
    \/ Store(t)
    \/ Get(t)
    \/ Return(t)

\* Concurrent callers of the operations on Cells.
Init == InitOf("free") \/ InitOf("inc") \/ InitOf("dinc")
Next == \E t \in Threads : CellStep(t)
Spec == Init /\ [][Next]_vars

\* One caller of every operation.
InitSeq == InitOf("seq")
NextSeq ==
    \E t \in Threads :
        \/ CellStep(t)
        \/ CollectBegin(t)
        \/ CollectVisit(t)
        \/ CollectEnd(t)
SpecSeq == InitSeq /\ [][NextSeq]_vars

\* The steps of a call in progress. Every thread inside a call is scheduled
\* again, and compare_exchange_weak does not fail spuriously for ever: a
\* spurious failure leaves the state as it is, so that weak fairness of the
\* steps that change it gives both.
Proceed(t) ==
    \/ FetchAdd(t)
    \/ Load(t)
    \/ CompareExchange(t)
    \/ Store(t)
    \/ Get(t)
    \/ Return(t)

\* Concurrent callers on one Cell, fairly scheduled.
InitFair == InitOf("fair")
SpecFair ==
    InitFair /\ [][Next]_vars /\ \A t \in Threads : WF_vars(Proceed(t))

\* A caller applies division function f to the operands, once.
Ratio(f, r) ==
    /\ scen = "div"
    /\ quo[f] = {}
    /\ quo' = [quo EXCEPT ![f] = {r}]
    /\ UNCHANGED <<num, den, gauge, cells, index, pc, local, calls, lin,
                   linret, hist>>

CallFloorOfRatio == Ratio("FloorOfRatio", FloorOfRatio(num, den))
CallCeilOfRatio == Ratio("CeilOfRatio", CeilOfRatio(num, den))
CallNonnegativeMod == Ratio("NonnegativeMod", NonnegativeMod(num, den))
CallRoundUpTo == num >= 0 /\ Ratio("RoundUpTo", RoundUpTo(num, den))

\* The division functions on every pair of operands within the bounds.
InitDiv == InitOf("div")
NextDiv ==
    \/ CallFloorOfRatio
    \/ CallCeilOfRatio
    \/ CallNonnegativeMod
    \/ CallRoundUpTo
SpecDiv == InitDiv /\ [][NextDiv]_vars

\* Concurrent callers of IncrementBy and Set on one double Cell, every
\* failed attempt of compare_exchange_weak a step of its own.
InitCas == InitOf("cas")
NextCas ==
    \E t \in Threads :
        \/ GetCell(t)
        \/ Load(t)
        \/ CompareExchange(t)
        \/ Store(t)
SpecCas == InitCas /\ [][NextCas]_vars

\* Construction by either factory, then one caller of every operation.
InitCtor == InitOf("ctor")
NextCtor ==
    \/ Allocate
    \/ New
    \/ \E t \in Threads :
          \/ CellStep(t)
          \/ CollectBegin(t)
          \/ CollectVisit(t)
          \/ CollectEnd(t)
SpecCtor == InitCtor /\ [][NextCtor]_vars

\* One caller of Collect, concurrent with callers that write.
InitColl == InitOf("coll")
NextColl ==
    \E t \in Threads :
        \/ CellStep(t)
        \/ CollectBegin(t)
        \/ CollectVisit(t)
        \/ CollectEnd(t)
SpecColl == InitColl /\ [][NextColl]_vars


\* ----------------------------------------------------------------- claims
Bound == {l \in Labels : index[l] # 0}
InFlight(t) == pc[t] \notin {"idle", "visit"} /\ op[t] # "Collect"
GetDone(t) == pc[t] = "done" /\ op[t] = "Get"
CollectDone(t) == pc[t] = "done" /\ op[t] = "Collect"
Entries(t) == {out[t][i] : i \in 1 .. Len(out[t])}

\* The thread takes a step of its call on label l, or starts one on l.
StepsOn(t, l) ==
    /\ <<pc[t], op[t], lbl[t], v[t], calls[t]>>' #
          <<pc[t], op[t], lbl[t], v[t], calls[t]>>
    /\ l = IF pc[t] = "idle" THEN lbl'[t] ELSE lbl[t]

\* The write of thread t's operation o takes effect in this step.
Effect(t, o) ==
    /\ pc[t] \in {"fetch_add", "cas", "store"}
    /\ op[t] = o
    /\ pc'[t] = "idle"

\* C1: on an int64 gauge, once NumThreads threads have each returned from
\* MaxCalls calls of IncrementBy(1, L0), the Cell of L0 holds, and Get(L0)
\* returns, exactly NumThreads * MaxCalls.
C1_NoLostUpdates ==
    scen = "inc" =>
        /\ (\A t \in Threads : calls[t] >= MaxCalls /\ pc[t] # "fetch_add")
              => ValueOf(L0) = NumThreads * MaxCalls
        /\ \A t \in Threads : GetDone(t) => ret[t] = NumThreads * MaxCalls

C1_Witness ==
    /\ scen = "inc"
    /\ \E t \in Threads : GetDone(t) /\ ret[t] = NumThreads * MaxCalls

\* The sum of the deltas of all calls made by threads 1 .. n under dinc.
SumOfDeltas(n) == SumTo([t \in Threads |-> calls[t] * DeltaOf(t)], n)

\* C2: on a double gauge, once every concurrent call of IncrementBy has
\* returned, the Cell holds its initial value plus the sum of the deltas of
\* all calls made: each delta is applied exactly once.
C2_NoLostUpdatesDouble ==
    (scen = "dinc" /\ \A t \in Threads : pc[t] = "idle")
        => ValueOf(L0) = NewCell + SumOfDeltas(NumThreads)

C2_Witness ==
    /\ scen = "dinc"
    /\ \A t \in Threads : pc[t] = "idle" /\ calls[t] = MaxCalls
    /\ ValueOf(L0) = SumOfDeltas(NumThreads)

\* C3: the operations on one Cell are linearizable: each update takes effect
\* in one step between its call and its return, the Cell always holds the
\* value of applying the updates in the order of those steps, and every Get
\* returns the value of the updates ordered before it.
C3_Linearizable ==
    /\ \A l \in Labels : ValueOf(l) = lin[l]
    /\ \A t \in Threads : GetDone(t) => ret[t] = linret[t]

\* A write by another thread landed between the load and the
\* compare-and-swap of a double IncrementBy.
C3_Witness ==
    /\ kind = "double"
    /\ \E t \in Threads :
          /\ pc[t] = "cas"
          /\ v[t] # cells[cell[t]]
          /\ lin[lbl[t]] = cells[cell[t]]

\* C4: a Gauge holds exactly one Cell per label tuple a call was made with,
\* and every thread operating on a label holds that label's one Cell.
C4_OneCellPerLabel ==
    /\ Bound = seen
    /\ Len(cells) = Cardinality(seen)
    /\ \A l, m \in Bound : index[l] = index[m] => l = m
    /\ \A t \in Threads : InFlight(t) => cell[t] = index[lbl[t]]

\* Two threads are inside calls on the same label, neither has finished.
C4_Witness ==
    \E t, u \in Threads :
        /\ t # u
        /\ InFlight(t) /\ InFlight(u)
        /\ lbl[t] = lbl[u]
        /\ cell[t] = cell[u]
        /\ Len(cells) = 1

\* C5: a Get(L) that follows Set(v, L) with no write to L in between
\* returns exactly v.
C5_SetGetRoundTrip ==
    \A t \in Threads :
        (GetDone(t) /\ last[lbl[t]].op = "Set") => ret[t] = last[lbl[t]].arg

C5_Witness ==
    \E t \in Threads :
        /\ GetDone(t)
        /\ last[lbl[t]].op = "Set"
        /\ ret[t] = IF kind = "int64" THEN IntMin ELSE 7

\* C6: on an int64 gauge, DecrementBy(x, L) taking effect right after
\* IncrementBy(x, L) leaves the Cell of L at the value p it held before the
\* IncrementBy, for every x.
C6_IncDecInverse ==
    [][\A t \in Threads : \A l \in Labels :
          (/\ kind = "int64"
           /\ Effect(t, "DecrementBy")
           /\ l = lbl[t]
           /\ last[l].op = "IncrementBy"
           /\ last[l].arg = arg[t])
              => ValueOf(l)' = last[l].pre]_vars

\* C7: on a double gauge, DecrementBy(v) changes the Cell exactly as
\* IncrementBy(-v) does, for every v.
C7_DecrementIsNegIncrement ==
    [][\A t \in Threads : \A l \in Labels :
          (kind = "double" /\ Effect(t, "DecrementBy") /\ l = lbl[t])
              => ValueOf(l)' = ValueOf(l) - arg[t]]_vars

\* C8: a step of a call on label A leaves what Get(B) returns unchanged,
\* for every other label B.
C8_CellIsolation ==
    [][\A t \in Threads : \A a, b \in Labels :
          (StepsOn(t, a) /\ a # b) => ValueOf(b)' = ValueOf(b)]_vars

\* Both labels have a Cell, they hold different values, and a thread is
\* about to write one of them.
C8_Witness ==
    /\ Cardinality(Bound) = 2
    /\ \E t \in Threads :
          /\ pc[t] \in {"fetch_add", "cas", "store"}
          /\ \E b \in Labels \ {lbl[t]} : ValueOf(b) # 0 /\ ValueOf(b) # ValueOf(lbl[t])

\* C9: Get on a label no earlier call accessed returns 0 and creates the
\* label's Cell, so that a Collect started afterwards has an entry for it.
C9_LazyZero ==
    \A t \in Threads :
        /\ (GetDone(t) /\ lbl[t] \in lazy /\ last[lbl[t]].op = "none")
              => ret[t] = 0
        /\ GetDone(t) => lbl[t] \in Bound
        /\ CollectDone(t) =>
              \A l \in lazy : \E e \in Entries(t) : e[1] = StrCat(l)

C9_Witness ==
    \E t \in Threads :
        /\ CollectDone(t)
        /\ lazy # {}
        /\ \A l \in lazy : <<StrCat(l), 0>> \in Entries(t)

\* C10: a Collect that runs alone returns exactly one entry per label a call
\* was made with, pairing the label's display string with the value of
\* applying the label's operations in order.
C10_CollectComplete ==
    \A t \in Threads :
        CollectDone(t) =>
            /\ Entries(t) = {<<StrCat(l), lin[l]>> : l \in seen}
            /\ Len(out[t]) = Cardinality(seen)

\* The specification's scenario in small: Set(x, A); IncrementBy(y, A);
\* Set(z, B): two entries, A's the sum.
C10_Witness ==
    \E t \in Threads :
        /\ CollectDone(t)
        /\ calls[t] = 3
        /\ last[-1].op = "IncrementBy" /\ last[-1].pre # 0
        /\ last[10].op = "Set" /\ last[10].arg # 0
        /\ Entries(t) = {<<"-1", last[-1].pre + last[-1].arg>>, <<"10", last[10].arg>>}

\* C11 as stated: every constructed Gauge, whichever factory made it, has
\* been passed to Registry.Add exactly once, and stays so under every later
\* operation.
C11_RegisteredOnce == made # "none" => added = 1

\* C11 as amended: a Gauge made by Gauge::New has been passed to
\* Registry.Add exactly once, a Gauge made by Gauge::Allocate never, and no
\* later operation on the Gauge calls Registry.Add.
C11_RegisteredOnceByNew ==
    /\ made = "New" => added = 1
    /\ made \in {"none", "Allocate"} => added = 0

\* A Gauge made by New has been operated on and collected.
C11_Witness ==
    /\ made = "New"
    /\ added = 1
    /\ \E t \in Threads : CollectDone(t) /\ calls[t] = MaxSeq

\* C12: the set of Cells only grows: in every step, of any operation, a label
\* that has a Cell keeps that same Cell, and no Cell is removed.
C12_CellsOnlyGrow ==
    [][/\ \A l \in Labels : index[l] # 0 => index'[l] = index[l]
       /\ Len(cells') >= Len(cells)]_vars

\* Both labels have a Cell, one was Set to 0, the other came back to 0 by a
\* DecrementBy, and a Collect is done.
C12_Witness ==
    /\ Cardinality(Bound) = 2
    /\ \A l \in Labels : ValueOf(l) = 0
    /\ \E l \in Labels : last[l].op = "Set" /\ last[l].arg = 0
    /\ \E l \in Labels : last[l].op = "other"
    /\ \E t \in Threads : CollectDone(t)

\* A Collect of thread t is in progress or has just built its result.
Collecting(t) == op[t] = "Collect" /\ pc[t] \in {"visit", "done"}

\* C13: when Collect runs concurrently with writers, every entry of its
\* result carries a value the entry's Cell held at some instant between the
\* start of that Collect and its return.
C13_CollectEntriesHeld ==
    \A t \in Threads :
        Collecting(t) =>
            \A i \in 1 .. Len(out[t]) :
                \E l \in Labels :
                    /\ out[t][i][1] = StrCat(l)
                    /\ out[t][i][2] \in held[l]

\* A Collect returns two entries, neither the value its Cell held when the
\* Collect started nor the value it holds at the return.
C13_Witness ==
    \E t \in Threads :
        /\ CollectDone(t)
        /\ Len(out[t]) = 2
        /\ \A i \in 1 .. 2 : \E l \in Labels :
              /\ out[t][i][1] = StrCat(l)
              /\ out[t][i][2] # ValueOf(l)
              /\ Cardinality(held[l]) >= 2

\* C14: under fair scheduling, with finitely many writes by the other
\* threads, every call of IncrementBy on a double Cell returns, as does
\* every other call; and the integer IncrementBy, Set and Get are over
\* after the one atomic step they take on the Cell.
C14_Terminates ==
    /\ \A t \in Threads : (pc[t] # "idle") ~> (pc[t] = "idle")
    /\ [][\A t \in Threads :
            (/\ pc[t] \in {"fetch_add", "store", "get"}
             /\ <<pc[t], v[t], ret[t]>>' # <<pc[t], v[t], ret[t]>>)
                => pc'[t] \in {"idle", "done"}]_vars

\* The other thread has made its last write and returned; this thread's
\* IncrementBy on the double Cell holds a stale v, so its next
\* compare-and-swap fails.
C14_Witness ==
    /\ scen = "fair"
    /\ kind = "double"
    /\ TotalCalls = MaxFree
    /\ \E t, u \in Threads :
          /\ pc[t] = "cas" /\ v[t] # cells[cell[t]]
          /\ u # t /\ pc[u] = "idle" /\ calls[u] > 0

\* The values the Cell of l may hold once operation o(x, l) has taken
\* effect on it.
After(o, x, l) == {SeqAdd(kind, ValueOf(l), d) : d \in Deltas(kind, o, x)}

\* C15: for both value types and from every state, Increment(l) resolves
\* the Cell that IncrementBy(1, l) would, leaves in it the value that
\* IncrementBy(1, l) would, and leaves every other Cell as it is; likewise
\* Decrement(l) and DecrementBy(1, l).
C15_IncrementIsIncrementByOne ==
    [][\A t \in Threads : \A l \in Labels :
          /\ (pc[t] = "idle" /\ op'[t] \in Adders /\ lbl'[t] = l)
                => cell'[t] = LookupOrCreate(index, cells, l).index[l]
          /\ (Effect(t, "Increment") /\ l = lbl[t])
                => /\ ValueOf(l)' \in After("IncrementBy", One(kind), l)
                   /\ \A m \in Labels \ {l} : ValueOf(m)' = ValueOf(m)
          /\ (Effect(t, "Decrement") /\ l = lbl[t])
                => /\ ValueOf(l)' \in After("DecrementBy", One(kind), l)
                   /\ \A m \in Labels \ {l} : ValueOf(m)' = ValueOf(m)]_vars

\* An Increment is about to take effect on a Cell that holds a value
\* other than 0, and a Decrement on the Cell of the other label.
C15_Witness ==
    /\ Cardinality(Bound) = 2
    /\ \E t, u \in Threads :
          /\ pc[t] \in {"fetch_add", "cas"} /\ op[t] = "Increment"
          /\ pc[u] \in {"fetch_add", "cas"} /\ op[u] = "Decrement"
          /\ ValueOf(lbl[t]) # 0
          /\ lbl[u] # lbl[t]

CasFailed(t) == pc[t] = "cas" /\ fails'[t] = fails[t] + 1

\* C19 as stated: an attempt of the compare-and-swap of a double
\* IncrementBy fails only when another thread's write has changed the
\* Cell's value since this thread last read it.
C19_FailsOnlyWhenOvertaken ==
    [][\A t \in Threads :
          CasFailed(t) => (since[t] /\ v[t] # cells[cell[t]])]_vars

\* C19 as amended: an attempt fails when the Cell's value differs from the
\* v this thread last read, which happens only after a completed write of
\* another thread, or spuriously with the value as last read; an attempt
\* that finds the value changed never succeeds; a failed attempt writes
\* nothing and leaves the Cell's current value in v, against which the
\* loop retries.
C19_FailsWhenOvertakenOrSpuriously ==
    [][\A t \in Threads :
          /\ (pc[t] = "cas" /\ v[t] # cells[cell[t]])
                => (since[t] /\ pc'[t] = "cas")
          /\ CasFailed(t)
                => /\ cells' = cells
                   /\ v'[t] = cells[cell[t]]
                   /\ pc'[t] = "cas"]_vars

\* A thread's attempt has failed twice, the last time spuriously: nobody
\* has written since it read, and v is the Cell's value; the Cell was
\* written by the other thread before.
C19_Witness ==
    \E t \in Threads :
        /\ pc[t] = "cas"
        /\ fails[t] = 2
        /\ ~since[t]
        /\ v[t] = cells[cell[t]]
        /\ v[t] # 0

\* Thread t takes this step.
StepOf(t) ==
    <<pc[t], op[t], v[t], out[t], todo[t]>>' #
        <<pc[t], op[t], v[t], out[t], todo[t]>>

\* The entries of thread t's result that carry label l.
EntriesOf(t, l) == {i \in 1 .. Len(out[t]) : out[t][i][1] = StrCat(l)}

\* C20: with no writer running, no step of Collect (of CollectCells and its
\* visitor) creates a Cell or changes a Cell's value, and when the
\* enumeration ends each existing (Cell, label) pair was visited exactly
\* once; a step of Get may add a Cell, and leaves every label that has a
\* Cell with that Cell and its value.
C20_CollectReadOnly ==
    [][\A t \in Threads :
          /\ (StepOf(t) /\ "Collect" \in {op[t], op'[t]})
                => /\ cells' = cells
                   /\ index' = index
          /\ (StepOf(t) /\ op[t] = "Collect" /\ pc'[t] = "done")
                => /\ Len(out[t]) = Cardinality(Bound)
                   /\ \A l \in Bound : Cardinality(EntriesOf(t, l)) = 1
          /\ (StepOf(t) /\ "Get" \in {op[t], op'[t]})
                => /\ \A l \in Bound :
                         index'[l] = index[l] /\ ValueOf(l)' = ValueOf(l)
                   /\ Len(cells') \in {Len(cells), Len(cells) + 1}]_vars

\* A Collect has visited two pairs, one of a Cell that a Get created and
\* one of a Cell that holds a value other than 0.
C20_Witness ==
    \E t \in Threads :
        /\ CollectDone(t)
        /\ Len(out[t]) = 2
        /\ \E l \in lazy : last[l].op = "none"
        /\ \E l \in Labels : ValueOf(l) # 0 /\ <<StrCat(l), ValueOf(l)>> \in Entries(t)

=============================================================================
